---- MODULE Spec2Model ----
(***************************************************************************)
(* State-machine model of the NCG driver of nlcglib (src/src/nlcglib.cpp): *)
(* the public entry points, the two drivers nlcg / nlcg_us and print_info. *)
(* Scalars delivered by the gradient engine and the inner products are    *)
(* small integers chosen by the environment; fields are symbolic tokens.   *)
(***************************************************************************)
EXTENDS Integers, Sequences, FiniteSets, TLC

VARIABLES
    entry,          \* public entry point that was called
    cuda,           \* TRUE iff compiled with __NLCGLIB__CUDA
    maxiter, tol, restart,   \* driver arguments
    pc,             \* position of the run
    kokkos,         \* execution runtime: "uninit" | "init" | "finalized"
    fetrap,         \* floating-point exception trapping enabled
    computes,       \* number of times the energy model was advanced
    held,           \* for each field the driver holds: the compute call it stems from
    grad,           \* index of the gradient evaluation g/delta stem from (0 = INIT)
    g_delta,        \* <<<g_X,delta_x>, <g_eta,delta_eta>>> of the current gradients
    Z_x, Z_eta,     \* persistent conjugate direction
    fr,             \* fr_old
    gamma,          \* Polak-Ribiere coefficient <<numerator, denominator>>
    slope_x_eta, slope,
    force_restart,
    i,              \* loop counter
    info,           \* the driver's nlcg_info object
    n_info,         \* number of summaries created by print_info in this run
    outcome,        \* how the driver ended
    ls_calls,       \* number of line-search invocations
    ls_args,        \* <<slope, force_restart>> of the latest line-search invocation
    ls_result,      \* "none" | "accepted" | "DescentError": what it signalled
    error,          \* what() of the exception that reached the caller, or "none"
    last_log,       \* restart message logged by the latest direction update
    us              \* an nlcg_us run set beside the run above (side-by-side runs only)

vars == <<entry, cuda, maxiter, tol, restart, pc, kokkos, fetrap, computes, held,
          grad, g_delta, Z_x, Z_eta, fr, gamma, slope_x_eta, slope, force_restart,
          i, info, n_info, outcome, ls_calls, ls_args, ls_result, error, last_log,
          us>>

\* ------------------------------------------------------------------ bounds
MaxIter == 3
MaxTol == 2
MaxRestart == 3

\* values an inner product component can take
SlopeVals == {-1, 0, 1}
SlopePairs == SlopeVals \X SlopeVals

\* ------------------------------------------------------------ entry points
HostEntries == {"nlcg_mvp2_cpu", "nlcg_us_cpu"}
DeviceEntries == {"nlcg_mvp2_device", "nlcg_mvp2_device_cpu", "nlcg_mvp2_cpu_device",
                  "nlcg_us_device", "nlcg_us_device_cpu", "nlcg_us_cpu_device"}
EntryPoints == HostEntries \cup DeviceEntries

\* driver template an entry point instantiates
Driver(e) ==
    IF e \in {"nlcg_mvp2_cpu", "nlcg_mvp2_device", "nlcg_mvp2_device_cpu",
              "nlcg_mvp2_cpu_device"}
    THEN "nlcg" ELSE "nlcg_us"

\* number of trial points of the ultrasoft failure handler: linspace(0, 0.5, 10)
HandlerPoints == 10

\* --------------------------------------------------------------- helpers
Abs(x) == IF x < 0 THEN -x ELSE x

\* copy(delta_x) / copy(delta_eta) of gradient evaluation k
Delta(blk, k) == [blk |-> blk, d |-> k, hist |-> <<>>]

\* rotateX / rotateEta: the previous direction transported by the rotation map u
rotate(Z, u) == [blk |-> Z.blk, d |-> Z.d, fresh |-> (Z.hist = <<>>), u |-> u]

\* conjugatex / conjugatex_us / conjugateeta: delta + gamma * transported Z
conjugate(op, delta, Zp, gam) ==
    [blk |-> delta.blk, d |-> delta.d,
     hist |-> <<[op |-> op, gamma |-> gam, prev |-> Zp.d,
                 prev_fresh |-> Zp.fresh, u |-> Zp.u]>>]

conjugatex_op(drv) == IF drv = "nlcg" THEN "conjugatex" ELSE "conjugatex_us"

\* compute_slope(g, Z): the pair of inner products; for Z = delta it is <g, delta>
IsSteepest(Z) == Z.hist = <<>> \/ Z.hist[1].gamma[1] = 0
compute_slope(Zx, Zeta, gd, other) ==
    IF IsSteepest(Zx) /\ IsSteepest(Zeta) THEN gd ELSE other

\* compute_slope_single(g, delta): the inner product reduced to one scalar
compute_slope_single(gd) == gd[1] + gd[2]

print_info_x_only(free_energy, ks_energy, entropy, slope_x, slope_eta, step) ==
    [F |-> free_energy, S |-> entropy, tolerance |-> slope_x, iter |-> step]
print_info_zero_based(free_energy, ks_energy, entropy, slope_x, slope_eta, step) ==
    [F |-> free_energy, S |-> entropy, tolerance |-> slope_x + slope_eta,
     iter |-> step - 1]
print_info(free_energy, ks_energy, entropy, slope_x, slope_eta, step) ==
    [F |-> free_energy, S |-> entropy, tolerance |-> slope_x + slope_eta, iter |-> step]

\* the values an nlcg_info that was never assigned can hold
Indeterminate ==
    {[F |-> 0, S |-> 0, tolerance |-> 0, iter |-> n] : n \in {-1, 1}}

\* if (i % restart == 0 || force_restart)
IsRestart_and(k) == k % restart = 0 /\ force_restart
IsRestart(k) == k % restart = 0 \/ force_restart

NoField == [blk |-> "none", d |-> 0, hist |-> <<>>]

\* the second run before it is called
NotCalled ==
    [pc |-> "call", seen |-> <<"call", 0>>, i |-> 0, slope_x_eta |-> <<0, 0>>,
     slope |-> 0, fr |-> 0, gamma |-> <<0, 1>>, force_restart |-> FALSE,
     info |-> [F |-> 0, S |-> 0, tolerance |-> 0, iter |-> 0], outcome |-> "none",
     ls_calls |-> 0, error |-> "none", last_log |-> "none"]

\* ------------------------------------------------------------------ Init
Init ==
    /\ entry \in EntryPoints
    /\ cuda \in BOOLEAN
    /\ maxiter \in (-1)..MaxIter
    /\ tol \in 0..MaxTol
    /\ restart \in 1..MaxRestart
    /\ pc = "call"
    /\ kokkos = "uninit"
    /\ fetrap = FALSE
    /\ computes = 0
    /\ held = [X |-> 0, Hx |-> 0, ek |-> 0, fn |-> 0, eta |-> 0]
    /\ grad = 0
    /\ g_delta = <<0, 0>>
    /\ Z_x = NoField
    /\ Z_eta = NoField
    /\ fr = 0
    /\ gamma = <<0, 1>>
    /\ slope_x_eta = <<0, 0>>
    /\ slope = 0
    /\ force_restart = FALSE
    /\ i = 0
    /\ info = [F |-> 0, S |-> 0, tolerance |-> 0, iter |-> 0]
    /\ n_info = 0
    /\ outcome = "none"
    /\ ls_calls = 0
    /\ ls_args = <<0, FALSE>>
    /\ ls_result = "none"
    /\ error = "none"
    /\ last_log = "none"
    /\ us = NotCalled

\* --------------------------------------------------------------- actions
\* Body of a public entry point. guarded: the body sits under #ifdef __NLCGLIB__CUDA
\* with the throw in the #else branch. Otherwise Kokkos::initialize, then the driver.
Call(e, guarded) ==
    /\ pc = "call"
    /\ entry = e
    /\ IF guarded /\ ~cuda
       THEN /\ pc' = "config_error"
            /\ error' = "recompile nlcglib with CUDA."
            /\ UNCHANGED kokkos
       ELSE /\ kokkos' = "init"
            /\ pc' = "driver"
            /\ UNCHANGED error
    /\ UNCHANGED <<entry, cuda, maxiter, tol, restart, fetrap, computes, held, grad,
                   g_delta, Z_x, Z_eta, fr, gamma, slope_x_eta, slope, force_restart,
                   i, info, n_info, outcome, ls_calls, ls_args, ls_result, last_log,
                   us>>

nlcg_mvp2_cpu == Call("nlcg_mvp2_cpu", FALSE)
nlcg_mvp2_device == Call("nlcg_mvp2_device", TRUE)
nlcg_mvp2_device_cpu == Call("nlcg_mvp2_device_cpu", TRUE)
nlcg_mvp2_cpu_device == Call("nlcg_mvp2_cpu_device", TRUE)
nlcg_us_device == Call("nlcg_us_device", TRUE)
nlcg_us_cpu == Call("nlcg_us_cpu", FALSE)
nlcg_us_device_cpu_unguarded == Call("nlcg_us_device_cpu", FALSE)
nlcg_us_device_cpu == Call("nlcg_us_device_cpu", TRUE)
nlcg_us_cpu_device == Call("nlcg_us_cpu_device", TRUE)

\* if (slope >= 0)
AscendingSlope_strict(s) == s > 0
AscendingSlope(s) == s >= 0

\* if (fr_new > 0)
IncreasingFr_old(fnew, fold) == fold > 0
IncreasingFr(fnew, fold) == fnew > 0

\* if (std::abs(slope) < tol)
CheckConvergence_noabs(s, t) == s < t
CheckConvergence(s, t) == Abs(s) < t

\* for (int i = 1; i < maxiter+1; ++i)
LoopContinues_short(k, m) == k < m
LoopContinues(k, m) == k < m + 1

\* fr = fr_new;  (restarted: whether the direction update that follows restarts)
UpdateFr_unless_restart(fnew, fold, restarted) == IF restarted THEN fold ELSE fnew
UpdateFr(fnew, fold, restarted) == fnew

\* catch (DescentError&)
CatchesDescentError_none == FALSE
CatchesDescentError == TRUE

\* feenableexcept(FE_ALL_EXCEPT & ~FE_INEXACT & ~FE_UNDERFLOW): the trap state after
\* the call, given the state before it.
feenableexcept_skipped(prev) == prev
feenableexcept(prev) == TRUE

\* nlcg / nlcg_us up to the loop: trapping on, two computes, initial gradients,
\* Z := delta, initial slope and its check, fr.
DriverInit ==
    /\ pc = "driver"
    /\ fetrap' = feenableexcept(fetrap)
    /\ info' \in Indeterminate
    /\ computes' = computes + 2
    /\ held' = [X |-> computes + 2, Hx |-> computes + 2, ek |-> computes + 1,
                fn |-> computes + 1, eta |-> computes + 1]
    /\ grad' = 0
    /\ \E gd \in SlopePairs :
        /\ g_delta' = gd
        /\ Z_x' = Delta("x", 0)
        /\ Z_eta' = Delta("eta", 0)
        /\ slope_x_eta' = compute_slope(Delta("x", 0), Delta("eta", 0), gd, gd)
        /\ slope' = slope_x_eta'[1] + slope_x_eta'[2]
        /\ IF AscendingSlope(slope')
           THEN /\ pc' = "fatal"
                /\ error' = "ascending slope detected. Abort!"
                /\ UNCHANGED <<fr, force_restart, i>>
           ELSE /\ fr' = compute_slope_single(gd)
                /\ force_restart' = FALSE
                /\ i' = 1
                /\ pc' = "loop"
                /\ UNCHANGED error
    /\ UNCHANGED <<entry, cuda, maxiter, tol, restart, kokkos, gamma, n_info, outcome,
                   ls_calls, ls_args, ls_result, last_log, us>>

\* What every driver step leaves alone.
Args == <<entry, cuda, maxiter, tol, restart, kokkos, fetrap, us>>

\* Loop head: loop bound, then the convergence check.
LoopHead ==
    /\ pc = "loop"
    /\ IF ~LoopContinues(i, maxiter)
       THEN /\ outcome' = "maxiter"
            /\ pc' = "driver_ret"
            /\ UNCHANGED <<info, n_info>>
       ELSE IF CheckConvergence(slope, tol)
       THEN /\ info' = print_info(computes, computes, computes,
                                  slope_x_eta[1], slope_x_eta[2], i)
            /\ n_info' = n_info + 1
            /\ outcome' = "converged"
            /\ pc' = "driver_ret"
       ELSE /\ pc' = "ls"
            /\ UNCHANGED <<info, n_info, outcome>>
    /\ UNCHANGED <<Args, computes, held, grad, g_delta, Z_x, Z_eta, fr, gamma,
                   slope_x_eta, slope, force_restart, i, ls_calls, ls_args, ls_result,
                   error, last_log>>

\* computes of the DescentError handler
HandlerComputes_none(drv) == 0
HandlerComputes(drv) == IF drv = "nlcg_us" THEN HandlerPoints ELSE 0

\* The line-search invocation: an accepted step, or DescentError and its handler.
LineSearch ==
    /\ pc = "ls"
    /\ ls_calls' = ls_calls + 1
    /\ ls_args' = <<slope, force_restart>>
    /\ \/ /\ ls_result' = "accepted"
          /\ computes' = computes + 1
          /\ pc' = "grad"
          /\ UNCHANGED <<outcome, error>>
       \/ /\ ls_result' = "DescentError"
          /\ IF CatchesDescentError
             THEN /\ computes' = computes + 1 + HandlerComputes(Driver(entry))
                  /\ outcome' = "degraded"
                  /\ pc' = "driver_ret"
                  /\ UNCHANGED error
             ELSE /\ computes' = computes + 1
                  /\ pc' = "fatal"
                  /\ error' = "DescentError"
                  /\ UNCHANGED outcome
    /\ UNCHANGED <<Args, held, grad, g_delta, Z_x, Z_eta, fr, gamma, slope_x_eta,
                   slope, force_restart, i, info, n_info, last_log>>

\* Refetch the fields, recompute gradients and steepest directions, check fr_new.
Gradients ==
    /\ pc = "grad"
    /\ held' = [X |-> computes, Hx |-> computes, ek |-> computes, fn |-> computes,
                eta |-> computes]
    /\ grad' = i
    /\ \E gd \in SlopePairs :
        /\ g_delta' = gd
        /\ IF IncreasingFr(compute_slope_single(gd), fr)
           THEN pc' = "fatal" /\ error' = "Error: increasing slope !!!"
           ELSE pc' = "conj" /\ UNCHANGED error
    /\ UNCHANGED <<Args, computes, Z_x, Z_eta, fr, gamma, slope_x_eta, slope,
                   force_restart, i, info, n_info, outcome, ls_calls, ls_args, ls_result,
                   last_log>>

\* gamma, fr := fr_new, restart or recombination, slope of the new direction.
Conjugate ==
    /\ pc = "conj"
    /\ IF fr = 0
       THEN /\ pc' = "trapped"
            /\ UNCHANGED <<Z_x, Z_eta, fr, gamma, slope_x_eta, slope, last_log>>
       ELSE /\ gamma' = <<compute_slope_single(g_delta), fr>>
            /\ fr' = UpdateFr(compute_slope_single(g_delta), fr, IsRestart(i))
            /\ IF IsRestart(i)
               THEN /\ last_log' = "CG restart"
                    /\ Z_x' = Delta("x", grad)
                    /\ Z_eta' = Delta("eta", grad)
               ELSE /\ last_log' = "none"
                    /\ Z_x' = conjugate(conjugatex_op(Driver(entry)), Delta("x", grad),
                                        rotate(Z_x, held.ek), gamma')
                    /\ Z_eta' = conjugate("conjugateeta", Delta("eta", grad),
                                          rotate(Z_eta, held.ek), gamma')
            /\ \E other \in SlopePairs :
                slope_x_eta' = compute_slope(Z_x', Z_eta', g_delta, other)
            /\ slope' = slope_x_eta'[1] + slope_x_eta'[2]
            /\ pc' = "check"
    /\ UNCHANGED <<Args, computes, held, grad, g_delta, force_restart, i, info, n_info,
                   outcome, ls_calls, ls_args, ls_result, error>>

\* slope >= 0: abort after a restart, else reset Z to delta and recompute the slope;
\* then the iteration summary.
SlopeCheck ==
    /\ pc = "check"
    /\ IF AscendingSlope(slope) /\ IsRestart(i)
       THEN /\ pc' = "fatal"
            /\ error' = "no descent direction could be found, abort!"
            /\ UNCHANGED <<Z_x, Z_eta, slope_x_eta, slope, last_log, info, n_info, i>>
       ELSE /\ IF AscendingSlope(slope)
               THEN /\ last_log' = "force restart"
                    /\ Z_x' = Delta("x", grad)
                    /\ Z_eta' = Delta("eta", grad)
                    /\ slope_x_eta' = compute_slope(Z_x', Z_eta', g_delta, g_delta)
                    /\ slope' = slope_x_eta'[1] + slope_x_eta'[2]
               ELSE UNCHANGED <<Z_x, Z_eta, slope_x_eta, slope, last_log>>
            /\ info' = print_info(computes, computes, computes,
                                  slope_x_eta'[1], slope_x_eta'[2], i)
            /\ n_info' = n_info + 1
            /\ i' = i + 1
            /\ pc' = "loop"
            /\ UNCHANGED error
    /\ UNCHANGED <<Args, computes, held, grad, g_delta, fr, gamma, force_restart,
                   outcome, ls_calls, ls_args, ls_result>>

EntryReturn_no_finalize ==
    /\ pc = "driver_ret"
    /\ pc' = "returned"
    /\ UNCHANGED <<entry, cuda, maxiter, tol, restart, kokkos, fetrap, computes, held,
                   grad, g_delta, Z_x, Z_eta, fr, gamma, slope_x_eta, slope,
                   force_restart, i, info, n_info, outcome, ls_calls, ls_args,
                   ls_result, error, last_log, us>>

\* The driver returned: Kokkos::finalize, the entry point returns info.
EntryReturn ==
    /\ pc = "driver_ret"
    /\ kokkos' = "finalized"
    /\ pc' = "returned"
    /\ UNCHANGED <<entry, cuda, maxiter, tol, restart, fetrap, computes, held, grad,
                   g_delta, Z_x, Z_eta, fr, gamma, slope_x_eta, slope, force_restart,
                   i, info, n_info, outcome, ls_calls, ls_args, ls_result, error,
                   last_log, us>>

Next ==
    \/ nlcg_mvp2_cpu
    \/ nlcg_mvp2_device
    \/ nlcg_mvp2_device_cpu
    \/ nlcg_mvp2_cpu_device
    \/ nlcg_us_device
    \/ nlcg_us_cpu
    \/ nlcg_us_device_cpu
    \/ nlcg_us_cpu_device
    \/ DriverInit
    \/ LoopHead
    \/ LineSearch
    \/ Gradients
    \/ Conjugate
    \/ SlopeCheck
    \/ EntryReturn

Spec == Init /\ [][Next]_vars

\* The driver is sequential code: whichever step is due is eventually taken, the
\* line search included (it returns or throws after its bounded number of trials).
FairSpec == Init /\ [][Next]_vars /\ WF_vars(Next)

\* ------------------------------------------------- nlcg beside nlcg_us
\* nlcg_us (lines 283-480) as a function of what it observes. u is its state;
\* garbage is what its unassigned `nlcg_info info` holds. Its observations are
\* those of the run above: g_delta (the initial fr, then fr_new), slope_x_eta (the
\* initial slope, then the slope of the updated direction), ls_result, and the
\* energies print_info receives.
nlcg_us_initial(u, garbage) ==
    LET s == slope_x_eta[1] + slope_x_eta[2] IN
    IF s >= 0
    THEN [u EXCEPT !.pc = "fatal", !.info = garbage, !.slope_x_eta = slope_x_eta,
                   !.slope = s, !.error = "ascending slope detected. Abort!"]
    ELSE [u EXCEPT !.pc = "loop", !.info = garbage, !.slope_x_eta = slope_x_eta,
                   !.slope = s, !.fr = compute_slope_single(g_delta),
                   !.force_restart = FALSE, !.i = 1]

nlcg_us_loop_head(u) ==
    IF ~(u.i < maxiter + 1)
    THEN [u EXCEPT !.pc = "driver_ret", !.outcome = "maxiter"]
    ELSE IF Abs(u.slope) < tol
    THEN [u EXCEPT !.pc = "driver_ret", !.outcome = "converged",
                   !.info = print_info(computes, computes, computes,
                                       u.slope_x_eta[1], u.slope_x_eta[2], u.i)]
    ELSE [u EXCEPT !.pc = "ls"]

nlcg_us_line_search(u) ==
    IF ls_result = "DescentError"
    THEN [u EXCEPT !.pc = "driver_ret", !.outcome = "degraded",
                   !.ls_calls = u.ls_calls + 1]
    ELSE [u EXCEPT !.pc = "grad", !.ls_calls = u.ls_calls + 1]

nlcg_us_gradients(u) ==
    IF compute_slope_single(g_delta) > 0
    THEN [u EXCEPT !.pc = "fatal", !.error = "Error: increasing slope !!!"]
    ELSE [u EXCEPT !.pc = "conj"]

nlcg_us_conjugate(u) ==
    LET fr_new == compute_slope_single(g_delta) IN
    IF u.fr = 0
    THEN [u EXCEPT !.pc = "trapped"]
    ELSE [u EXCEPT !.pc = "check", !.gamma = <<fr_new, u.fr>>, !.fr = fr_new,
                   !.last_log = IF u.i % restart = 0 \/ u.force_restart
                                THEN "CG restart" ELSE "none",
                   !.slope_x_eta = slope_x_eta,
                   !.slope = slope_x_eta[1] + slope_x_eta[2]]

nlcg_us_slope_check(u) ==
    IF u.slope >= 0 /\ (u.i % restart = 0 \/ u.force_restart)
    THEN [u EXCEPT !.pc = "fatal",
                   !.error = "no descent direction could be found, abort!"]
    ELSE LET sxe == IF u.slope >= 0
                    THEN compute_slope(Delta("x", grad), Delta("eta", grad),
                                       g_delta, g_delta)
                    ELSE u.slope_x_eta
         IN [u EXCEPT !.pc = "loop", !.i = u.i + 1,
                      !.last_log = IF u.slope >= 0 THEN "force restart" ELSE u.last_log,
                      !.slope_x_eta = sxe, !.slope = sxe[1] + sxe[2],
                      !.info = print_info(computes, computes, computes,
                                          sxe[1], sxe[2], u.i)]

nlcg_us(u, garbage) ==
    CASE u.pc = "call" -> [u EXCEPT !.pc = "driver"]
      [] u.pc = "driver" -> nlcg_us_initial(u, garbage)
      [] u.pc = "loop" -> nlcg_us_loop_head(u)
      [] u.pc = "ls" -> nlcg_us_line_search(u)
      [] u.pc = "grad" -> nlcg_us_gradients(u)
      [] u.pc = "conj" -> nlcg_us_conjugate(u)
      [] u.pc = "check" -> nlcg_us_slope_check(u)
      [] u.pc = "driver_ret" -> [u EXCEPT !.pc = "returned"]
      [] OTHER -> u

\* The run above is an nlcg run that enters its driver.
PairInit ==
    /\ Init
    /\ Driver(entry) = "nlcg"
    /\ entry \in DeviceEntries => cuda

\* nlcg takes its next step once nlcg_us has taken the same one.
StepNlcg ==
    /\ us.seen = <<pc, i>>
    /\ Next

\* nlcg_us takes the step nlcg has just taken, on the same observations.
StepNlcgUs ==
    /\ us.seen # <<pc, i>>
    /\ us.pc \in {"call", "driver", "loop", "ls", "grad", "conj", "check", "driver_ret"}
    /\ \E garbage \in Indeterminate :
        us' = [nlcg_us(us, garbage) EXCEPT !.seen = <<pc, i>>]
    /\ UNCHANGED <<entry, cuda, maxiter, tol, restart, pc, kokkos, fetrap, computes,
                   held, grad, g_delta, Z_x, Z_eta, fr, gamma, slope_x_eta, slope,
                   force_restart, i, info, n_info, outcome, ls_calls, ls_args,
                   ls_result, error, last_log>>

PairNext == StepNlcg \/ StepNlcgUs

PairSpec == PairInit /\ [][PairNext]_vars

\* ------------------------------------------------------------------ claims
Returning == pc \in {"driver_ret", "returned"}

\* C1: at the head of an iteration i in 1..maxiter with |slope| < tol the driver
\* returns CONVERGED with a summary of iteration count i built from the slope it
\* holds, without invoking the line search, advancing the energy model or touching
\* Z_x, Z_eta and fr_old; the entry point hands that summary on unchanged.
C1_ConvergedAtLoopHead ==
    [][ /\ (pc = "loop" /\ i >= 1 /\ i <= maxiter /\ Abs(slope) < tol) =>
              /\ pc' = "driver_ret"
              /\ outcome' = "converged"
              /\ info'.iter = i
              /\ info'.tolerance = slope_x_eta[1] + slope_x_eta[2]
              /\ n_info' = n_info + 1
              /\ ls_calls' = ls_calls
              /\ computes' = computes
              /\ UNCHANGED <<Z_x, Z_eta, fr, i>>
        /\ (pc = "driver_ret" /\ outcome = "converged") =>
              /\ pc' = "returned"
              /\ UNCHANGED <<info, ls_calls, computes, Z_x, Z_eta, fr, i>>
      ]_vars

C1_Witness ==
    /\ pc = "returned"
    /\ outcome = "converged"
    /\ info.iter = 2
    /\ ls_calls = 1

\* C2 as stated: a slope with |slope| < tol, held on entry to iteration i or
\* recomputed at the end of iteration i (i = maxiter included), ends the run at
\* iteration i with CONVERGED and reported iteration count i.
C2_Claim ==
    (pc = "returned" /\ maxiter >= 1 /\ Abs(slope) < tol) =>
        /\ outcome = "converged"
        /\ info.iter = (IF grad = 0 THEN 1 ELSE grad)

\* C2 amended: the convergence check acts on entry to an iteration only. A CONVERGED
\* return at iteration i reports count i, follows i - 1 line searches and tests the
\* slope of gradient evaluation i - 1; the line search is never reached with
\* |slope| < tol; a slope that drops below tol at the end of iteration maxiter is
\* returned by the exhausted loop with count maxiter.
C2_Amended ==
    /\ (Returning /\ outcome = "converged") =>
          /\ info.iter = i
          /\ i = grad + 1
          /\ i <= maxiter
          /\ Abs(slope) < tol
          /\ Abs(info.tolerance) < tol
          /\ ls_calls = i - 1
    /\ (pc \in {"ls", "grad", "conj", "check"}) => i <= maxiter
    /\ (pc = "ls") => Abs(slope) >= tol
    /\ (ls_calls >= 1) => Abs(ls_args[1]) >= tol
    /\ (pc = "returned" /\ maxiter >= 1 /\ Abs(slope) < tol) =>
          \/ outcome = "converged" /\ info.iter = grad + 1
          \/ outcome = "maxiter" /\ grad = maxiter /\ info.iter = maxiter

C2_Witness ==
    /\ pc = "returned"
    /\ outcome = "converged"
    /\ grad = 1
    /\ info.iter = 2

\* C3: a DescentError of the line search in iteration i >= 2 reaches no caller: the
\* driver returns normally with the summary created at the end of iteration i - 1
\* (count i - 1, that iteration's energy and slope), and creates none for iteration i.
C3_DegradedStop ==
    (ls_result = "DescentError" /\ i >= 2) =>
        /\ Returning
        /\ outcome = "degraded"
        /\ error = "none"
        /\ info.iter = i - 1
        /\ n_info = i - 1
        /\ info.tolerance = slope
        /\ info.F = held.X
        /\ info.S = held.X

C3_Witness ==
    /\ pc = "returned"
    /\ ls_result = "DescentError"
    /\ i = 3
    /\ info.iter = 2

\* C4 as stated: every normal return hands out a summary created during this run.
C4_Claim ==
    pc = "returned" => n_info >= 1

\* C5: when the loop runs out (maxiter >= 1) the driver returns normally with the
\* summary created at the end of iteration maxiter, whose count is maxiter.
C5_MaxiterExhausted ==
    (Returning /\ outcome = "maxiter" /\ maxiter >= 1) =>
        /\ error = "none"
        /\ i = maxiter + 1
        /\ ls_calls = maxiter
        /\ n_info = maxiter
        /\ info.iter = maxiter
        /\ info.tolerance = slope
        /\ info.F = computes

C5_Witness ==
    /\ pc = "returned"
    /\ outcome = "maxiter"
    /\ maxiter = 2
    /\ info.iter = 2

\* C6: an initial slope >= 0 aborts the run in INIT with an exception that reaches
\* the caller: no iteration is entered, no line search is invoked, no summary is
\* created, nothing is returned (the runtime is not even finalised).
C6_AscendingInitialSlope ==
    /\ (fetrap /\ grad = 0 /\ slope >= 0) =>
          /\ pc = "fatal"
          /\ error = "ascending slope detected. Abort!"
          /\ i = 0
          /\ ls_calls = 0
          /\ n_info = 0
          /\ outcome = "none"
          /\ kokkos = "init"
    /\ (error = "ascending slope detected. Abort!") =>
          pc = "fatal" /\ grad = 0 /\ slope >= 0

C6_Witness ==
    /\ pc = "fatal"
    /\ error = "ascending slope detected. Abort!"
    /\ slope = 0
    /\ maxiter = 2

\* C7: fr_new > 0 aborts the run before Z_x, Z_eta or fr_old are written: they hold
\* what the previous iteration (or INIT) left, the exception is not turned into a
\* DEGRADED-STOP return, and nothing happens after the abort.
C7_IncreasingFrAborts ==
    [][ /\ pc # "fatal"
        /\ (pc = "grad" /\ g_delta'[1] + g_delta'[2] > 0) =>
              /\ pc' = "fatal"
              /\ error' = "Error: increasing slope !!!"
              /\ outcome' = "none"
              /\ UNCHANGED <<Z_x, Z_eta, fr, gamma, slope, info, n_info>>
              /\ Z_x.d = i - 1
              /\ Z_eta.d = i - 1
              /\ (i >= 2 => fr = gamma[1])
      ]_vars

C7_Witness ==
    /\ pc = "fatal"
    /\ error = "Error: increasing slope !!!"
    /\ i = 2
    /\ Z_x.d = 1

\* C8: (restart_period >= 1) the direction update of iteration i is a hard restart
\* exactly when i mod restart_period = 0 or the forced-restart flag is set; after a
\* hard restart, and after a forced restart triggered by a slope >= 0, Z_x and Z_eta
\* are that iteration's fresh steepest pair, with nothing of the transported
\* direction or gamma; any other update is a recombination with gamma.
C8_RestartIsSteepest ==
    /\ (pc = "check") =>
          /\ (i % restart = 0 \/ force_restart) <=> (last_log = "CG restart")
          /\ (i % restart = 0 \/ force_restart) =>
                /\ Z_x = [blk |-> "x", d |-> i, hist |-> <<>>]
                /\ Z_eta = [blk |-> "eta", d |-> i, hist |-> <<>>]
          /\ ~(i % restart = 0 \/ force_restart) =>
                /\ Len(Z_x.hist) = 1 /\ Z_x.hist[1].gamma = gamma /\ Z_x.d = i
                /\ Len(Z_eta.hist) = 1 /\ Z_eta.hist[1].gamma = gamma /\ Z_eta.d = i
    /\ (pc = "loop" /\ last_log \in {"CG restart", "force restart"}) =>
          /\ Z_x = [blk |-> "x", d |-> i - 1, hist |-> <<>>]
          /\ Z_eta = [blk |-> "eta", d |-> i - 1, hist |-> <<>>]
          /\ (last_log = "CG restart") <=> ((i - 1) % restart = 0 \/ force_restart)

C8_Witness ==
    /\ pc = "check"
    /\ restart = 2
    /\ i = 2
    /\ last_log = "CG restart"
    /\ Z_x.hist = <<>>

\* C9: without device support every entry point that needs a device fails at once
\* with the configuration error: runtime not initialised, energy model never
\* called, trapping not enabled; the two host entry points never raise it.
C9_ConfigurationError ==
    /\ (pc # "call" /\ ~cuda /\
        entry \in {"nlcg_mvp2_device", "nlcg_mvp2_device_cpu", "nlcg_mvp2_cpu_device",
                   "nlcg_us_device", "nlcg_us_device_cpu", "nlcg_us_cpu_device"}) =>
          /\ pc = "config_error"
          /\ error = "recompile nlcglib with CUDA."
          /\ kokkos = "uninit"
          /\ computes = 0
          /\ ~fetrap
          /\ ls_calls = 0
          /\ n_info = 0
    /\ (entry \in {"nlcg_mvp2_cpu", "nlcg_us_cpu"}) =>
          pc # "config_error" /\ error # "recompile nlcglib with CUDA."

C9_Witness ==
    /\ pc = "config_error"
    /\ entry = "nlcg_us_device_cpu"
    /\ ~cuda
    /\ kokkos = "uninit"

\* C10 as stated: a slope >= 0 after recombination in a non-restart iteration sets
\* the forced-restart flag, resets Z to the steepest direction and recomputes the
\* slope from it before the summary is emitted.
C10_Claim ==
    (pc = "loop" /\ last_log = "force restart") =>
        /\ force_restart
        /\ Z_x = [blk |-> "x", d |-> i - 1, hist |-> <<>>]
        /\ Z_eta = [blk |-> "eta", d |-> i - 1, hist |-> <<>>]
        /\ slope = g_delta[1] + g_delta[2]
        /\ info.tolerance = slope

\* C11: in an iteration whose direction update was a hard restart, a recomputed
\* slope >= 0 aborts the run: the runtime_error reaches the caller (it is not a
\* DescentError, so the handler does not turn it into a return), no summary is
\* created for that iteration and none is returned.
C11_NoDescentAfterRestart ==
    [][ /\ (pc = "check" /\ slope >= 0 /\ (i % restart = 0 \/ force_restart)) =>
              /\ pc' = "fatal"
              /\ error' = "no descent direction could be found, abort!"
              /\ outcome' = "none"
              /\ n_info' = n_info
              /\ n_info = i - 1
              /\ info' = info
              /\ kokkos' = "init"
        /\ (error = "no descent direction could be found, abort!") => FALSE
      ]_vars

C11_Witness ==
    /\ pc = "fatal"
    /\ error = "no descent direction could be found, abort!"
    /\ i = 2
    /\ restart = 2
    /\ n_info = 1
    /\ info.iter = 1

C13_Claim ==
    (ls_calls >= 1) => ls_args[1] < 0

\* C14 as stated: the initial fr and every fr_new stored as fr_old are strictly
\* negative, so gamma = fr_new / fr_old never divides by zero.
C14_Claim ==
    /\ (pc \in {"loop", "ls", "grad", "conj", "check", "driver_ret", "returned"}) => fr < 0
    /\ pc # "trapped"

C16_Claim ==
    (pc \in {"loop", "ls"} /\ i >= 1 /\ i <= maxiter) =>
        /\ held.X = computes
        /\ held.Hx = computes
        /\ held.ek = computes
        /\ held.eta = computes
        /\ held.fn = computes

\* C17: the summary created at the end of a completed iteration i carries count i
\* and tolerance slope_x + slope_eta of the slope finalised in that iteration (after
\* any forced restart); that slope is the one the convergence check of iteration
\* i + 1 tests, and a CONVERGED return hands out a tolerance t with |t| < tol.
C17_SummaryTolerance ==
    /\ (pc \in {"loop", "ls"} /\ i >= 2) =>
          /\ info.iter = i - 1
          /\ info.tolerance = slope_x_eta[1] + slope_x_eta[2]
          /\ info.tolerance = slope
          /\ n_info = i - 1
    /\ (pc = "ls" /\ i >= 2) => Abs(info.tolerance) >= tol
    /\ (Returning /\ outcome = "converged") =>
          /\ info.tolerance = slope
          /\ Abs(info.tolerance) < tol
          /\ info.iter = i

C17_Witness ==
    /\ pc = "returned"
    /\ outcome = "converged"
    /\ last_log = "force restart"
    /\ info.iter = 2
    /\ info.tolerance = 0
    /\ slope_x_eta = <<1, -1>>

\* C18: with every line-search invocation terminating, every run eventually
\* reaches one of the terminal outcomes CONVERGED, DEGRADED-STOP, maxiter
\* exhausted (a return to the caller) or FATAL-ABORT (an exception at the
\* caller), after at most maxiter line-search invocations and at most one per
\* iteration.
C18_Claim ==
    /\ <>(pc \in {"returned", "fatal", "config_error"})
    /\ [](/\ ls_calls <= (IF maxiter > 0 THEN maxiter ELSE 0)
          /\ (pc \in {"loop", "ls"}) => ls_calls = i - 1
          /\ (pc \in {"grad", "conj", "check"}) => ls_calls = i)

\* C19: a driver run enables floating-point trapping at its entry, before any
\* call to the energy model, and no step of the run turns it off again: it is
\* still on at every exit (converged, degraded stop, maxiter exhausted, fatal
\* abort).
C19_TrappingStaysEnabled ==
    [][ /\ (pc = "driver") => (computes = 0 /\ ~fetrap /\ fetrap')
        /\ (computes' > computes) => fetrap'
        /\ fetrap => fetrap'
        /\ (pc' \in {"driver_ret", "returned", "fatal", "trapped"}) => fetrap'
      ]_vars

C19_Witness ==
    /\ pc = "returned"
    /\ outcome = "degraded"
    /\ kokkos = "finalized"
    /\ fetrap

\* both runs have taken the same number of steps
InStep == us.seen = <<pc, i>> /\ pc # "call"

\* C20: nlcg and nlcg_us, run with the same maxiter, tol and restart_period on
\* the same observations, take the same decisions at every step (same position,
\* iteration, restart or recombination, abort and its message) and end in the same
\* outcome with the same reported iteration count and tolerance.
C20_Claim ==
    InStep =>
        /\ us.pc = pc
        /\ us.i = i
        /\ us.last_log = last_log
        /\ us.error = error
        /\ us.outcome = outcome
        /\ us.ls_calls = ls_calls
        /\ (pc = "returned") =>
              /\ us.info.iter = info.iter
              /\ us.info.tolerance = info.tolerance

\* Apart from a summary that was never assigned, the two runs agree on everything
\* they decide and report.
SameSkeleton ==
    InStep =>
        /\ us.pc = pc
        /\ us.i = i
        /\ us.last_log = last_log
        /\ us.error = error
        /\ us.outcome = outcome
        /\ us.ls_calls = ls_calls
        /\ us.slope = slope /\ us.fr = fr /\ us.gamma = gamma
        /\ (pc = "returned" /\ n_info >= 1) =>
              /\ us.info.iter = info.iter
              /\ us.info.tolerance = info.tolerance

\* C21: every iteration j restarts the direction if and only if j mod
\* restart_period = 0 and otherwise recombines delta with gamma times the
\* transported previous direction, whether or not an earlier iteration forced a
\* restart; force_restart is false throughout, so every line-search invocation
\* receives false.
C21_ScheduleIgnoresForcedRestart ==
    [][ /\ (pc = "conj" /\ fr # 0 /\ i % restart = 0) =>
              /\ last_log' = "CG restart"
              /\ Z_x' = [blk |-> "x", d |-> i, hist |-> <<>>]
              /\ Z_eta' = [blk |-> "eta", d |-> i, hist |-> <<>>]
        /\ (pc = "conj" /\ fr # 0 /\ i % restart # 0) =>
              /\ last_log' = "none"
              /\ Len(Z_x'.hist) = 1 /\ Len(Z_eta'.hist) = 1
              /\ Z_x'.d = i /\ Z_eta'.d = i
              /\ Z_x'.hist[1].gamma = gamma' /\ Z_eta'.hist[1].gamma = gamma'
              /\ Z_x'.hist[1].prev = Z_x.d /\ Z_eta'.hist[1].prev = Z_eta.d
              /\ Z_x'.hist[1].prev_fresh = (Z_x.hist = <<>>)
        /\ ~force_restart /\ ~force_restart'
        /\ (pc = "ls") => ls_args' = <<slope, FALSE>>
      ]_vars

C21_Witness ==
    /\ pc = "check"
    /\ i = 2
    /\ restart = 3
    /\ ls_calls = 2
    /\ ls_args[2] = FALSE
    /\ last_log = "none"
    /\ Len(Z_x.hist) = 1
    /\ Z_x.hist[1].prev = 1
    /\ Z_x.hist[1].prev_fresh

\* the entry points that run the ultrasoft driver
UltrasoftEntries ==
    {"nlcg_us_cpu", "nlcg_us_device", "nlcg_us_device_cpu", "nlcg_us_cpu_device"}

\* C22: when the line search signals a descent failure, the ultrasoft driver's
\* handler advances the energy model 10 more times before it returns and the
\* standard driver's handler not at all; neither creates or changes a summary, so
\* after an iteration i >= 2 the returned summary is still that of iteration i - 1,
\* and in the ultrasoft variant the energy model is at least 10 evaluations past
\* the state that summary was taken from.
C22_HandlerEvaluations ==
    [][ /\ (pc = "ls" /\ ls_result' = "DescentError") =>
              /\ pc' = "driver_ret"
              /\ outcome' = "degraded"
              /\ info' = info
              /\ n_info' = n_info
              /\ UNCHANGED <<Z_x, Z_eta, slope, fr, i>>
              /\ (entry \in UltrasoftEntries) => computes' = computes + 1 + HandlerPoints
              /\ (entry \notin UltrasoftEntries) => computes' = computes + 1
              /\ (i >= 2) => (info.iter = i - 1 /\ info.F = computes)
        /\ (pc = "driver_ret" /\ outcome = "degraded") =>
              /\ pc' = "returned"
              /\ info' = info
              /\ computes' = computes
              /\ (i >= 2 /\ entry \in UltrasoftEntries) =>
                     computes - info.F = 1 + HandlerPoints
              /\ (i >= 2 /\ entry \notin UltrasoftEntries) => computes - info.F = 1
      ]_vars

C22_Witness ==
    /\ pc = "returned"
    /\ outcome = "degraded"
    /\ entry = "nlcg_us_cpu"
    /\ i = 2
    /\ info.iter = 1
    /\ computes = info.F + 11

\* C23: an entry point that initialised the runtime finalises it exactly when its
\* driver returns normally (converged, degraded stop, maxiter exhausted); after a
\* fatal abort of the driver (ascending initial slope, fr_new > 0, no descent
\* direction after restart) the exception is at the caller, nothing more runs and
\* the runtime is still initialised.
C23_FinalizeOnNormalReturnOnly ==
    [][ /\ (kokkos' = "finalized") <=> (pc' = "returned")
        /\ (pc' = "returned") =>
              /\ outcome' \in {"converged", "degraded", "maxiter"}
              /\ error' = "none"
        /\ (pc = "driver_ret") =>
              /\ kokkos = "init"
              /\ outcome \in {"converged", "degraded", "maxiter"}
              /\ pc' = "returned"
              /\ kokkos' = "finalized"
        /\ (pc' = "fatal") =>
              /\ kokkos = "init"
              /\ kokkos' = "init"
              /\ outcome' = "none"
              /\ error' \in {"ascending slope detected. Abort!",
                             "Error: increasing slope !!!",
                             "no descent direction could be found, abort!"}
        /\ (pc = "fatal") => FALSE
        /\ (kokkos = "uninit") <=> (pc = "call")
        /\ (kokkos' = "uninit") <=> (pc' = "config_error")
      ]_vars

C23_Witness ==
    /\ pc = "fatal"
    /\ entry = "nlcg_us_cpu"
    /\ error = "ascending slope detected. Abort!"
    /\ kokkos = "init"
    /\ computes = 2
====
